---- MODULE Spec2Model ----
(***************************************************************************)
(* Model of mger-smibot: the JSON document store with its in-memory cache  *)
(* (database.py) and the aiogram bot built on it (bot.py): access          *)
(* middleware, handler registry and the FSM conversations.                 *)
(*                                                                         *)
(* Texts are sequences of words (what str.split() yields); a dict is a     *)
(* function whose domain is its set of keys.                               *)
(***************************************************************************)
EXTENDS Integers, Sequences, FiniteSets, TLC

VARIABLES
    whitelist_file,   \* data/whitelist.json : [users, admins]
    events_file,      \* data/events.json    : [events]
    media_file,       \* data/media.json     : [media]
    cache,            \* JSONDatabase.cache  : dict
    storage,          \* MemoryStorage       : user id -> [state, data]
    tasks,            \* update-handling tasks, in order of receipt
    now,              \* the clock read by datetime.now()
    gigachat_client,  \* "client" or "none", fixed at start-up
    ret               \* the last direct call of a JSONDatabase method

vars == <<whitelist_file, events_file, media_file, cache, storage, tasks, now,
          gigachat_client, ret>>

files == <<whitelist_file, events_file, media_file>>

(***************************************************************************)
(* Bounds of the model                                                     *)
(***************************************************************************)
MaxUpdates == 2      \* updates received in one behaviour of Spec
MaxInFlight == 2     \* update tasks alive at the same time
MaxEvents == 3       \* records in events.json (SpecDb)
MaxMedia == 1        \* records in media.json (SpecDb)
MaxNow == 4          \* datetime.now() readings

(***************************************************************************)
(* Python values                                                           *)
(***************************************************************************)
EmptyDict == [k \in {} |-> TRUE]

Put(d, k, v) == [x \in (DOMAIN d) \cup {k} |-> IF x = k THEN v ELSE d[x]]

Pop(d, k) == [x \in (DOMAIN d) \ {k} |-> d[x]]

Update(d, e) == [x \in (DOMAIN d) \cup (DOMAIN e) |-> IF x \in DOMAIN e THEN e[x] ELSE d[x]]

In(x, s) == \E i \in 1..Len(s) : s[i] = x

Digit == <<"0", "1", "2", "3", "4", "5", "6", "7", "8", "9">>

RECURSIVE Str(_)
Str(n) == IF n < 10 THEN Digit[n + 1] ELSE Str(n \div 10) \o Digit[(n % 10) + 1]

\* str.lower() of a word, over the vocabulary of the model
LowerWord(w) == CASE w = "City" -> "city" [] w = "News" -> "news" [] OTHER -> w

Lower(text) == [i \in 1..Len(text) |-> LowerWord(text[i])]

\* `q in s` on texts: q occurs in s as a run of words
Contains(s, q) ==
    \E i \in 1..(Len(s) + 1) :
        /\ i + Len(q) - 1 <= Len(s)
        /\ \A j \in 1..Len(q) : s[i + j - 1] = q[j]

\* dict.get(key, default)
Get(d, k, default) == IF k \in DOMAIN d THEN d[k] ELSE default

(***************************************************************************)
(* database.py                                                             *)
(***************************************************************************)
\* the content of a file that is missing or does not parse as JSON
Corrupt == [corrupt |-> TRUE]

\* _load_json: the parsed document, {} when the file is missing or unparsable
load_json(file) == IF "corrupt" \in DOMAIN file THEN EmptyDict ELSE file

\* what open(filepath, 'w') and json.dump can do: write the document; raise
\* in open and leave the file as it was; raise in json.dump, after open has
\* truncated the file
DiskOutcomes == {"ok", "denied", "full"}

\* _save_json: [file, raised]
save_json(file, data, disk) ==
    CASE disk = "ok" -> [file |-> data, raised |-> ""]
      [] disk = "denied" -> [file |-> file, raised |-> "OSError"]
      [] disk = "full" -> [file |-> Corrupt, raised |-> "OSError"]

\* the method ends in exception exc: nothing after the raising line runs
Raise(file, c, exc) ==
    [file |-> file, cache |-> c, ret |-> "None", wrote |-> FALSE, raised |-> exc]

Return(file, c, val, wrote) ==
    [file |-> file, cache |-> c, ret |-> val, wrote |-> wrote, raised |-> ""]

db_add_to_whitelist_dup(wf, c, username, disk) ==
    LET data == load_json(wf) IN
    IF "users" \notin DOMAIN data THEN Raise(wf, c, "KeyError")
    ELSE LET w == save_json(wf, [data EXCEPT !.users = Append(@, username)], disk)
         IN IF w.raised # "" THEN Raise(w.file, c, w.raised)
            ELSE Return(w.file, Pop(c, "whitelist"), TRUE, TRUE)

db_add_to_whitelist(wf, c, username, disk) ==
    LET data == load_json(wf) IN
    IF "users" \notin DOMAIN data THEN Raise(wf, c, "KeyError")
    ELSE IF ~In(username, data.users)
    THEN LET w == save_json(wf, [data EXCEPT !.users = Append(@, username)], disk)
         IN IF w.raised # "" THEN Raise(w.file, c, w.raised)
            ELSE Return(w.file, Pop(c, "whitelist"), TRUE, TRUE)
    ELSE Return(wf, c, FALSE, FALSE)

db_is_whitelisted(wf, c, username) ==
    LET cache_key == "whitelist_" \o username IN
    IF cache_key \in DOMAIN c
    THEN [cache |-> c, ret |-> c[cache_key], raised |-> ""]
    ELSE LET data == load_json(wf) IN
         IF "users" \notin DOMAIN data
         THEN [cache |-> c, ret |-> "None", raised |-> "KeyError"]
         ELSE LET v == In(username, data.users) \/ In(username, data.admins)
              IN [cache |-> Put(c, cache_key, v), ret |-> v, raised |-> ""]

db_add_event_len(ef, c, event_data, t, disk) ==
    LET data == load_json(ef) IN
    IF "events" \notin DOMAIN data THEN Raise(ef, c, "KeyError")
    ELSE LET event_id == Str(Len(data.events))
             rec == Put(Put(event_data, "id", event_id), "created_at", t)
             w == save_json(ef, [data EXCEPT !.events = Append(@, rec)], disk)
         IN IF w.raised # "" THEN Raise(w.file, c, w.raised)
            ELSE Return(w.file, Pop(c, "events"), event_id, TRUE)

db_add_event_stale(ef, c, event_data, t, disk) ==
    LET data == load_json(ef) IN
    IF "events" \notin DOMAIN data THEN Raise(ef, c, "KeyError")
    ELSE LET event_id == Str(Len(data.events) + 1)
             rec == Put(Put(event_data, "id", event_id), "created_at", t)
             w == save_json(ef, [data EXCEPT !.events = Append(@, rec)], disk)
         IN IF w.raised # "" THEN Raise(w.file, c, w.raised)
            ELSE Return(w.file, c, event_id, TRUE)

db_add_event_evictfirst(ef, c, event_data, t, disk) ==
    LET data == load_json(ef) IN
    IF "events" \notin DOMAIN data THEN Raise(ef, c, "KeyError")
    ELSE LET event_id == Str(Len(data.events) + 1)
             rec == Put(Put(event_data, "id", event_id), "created_at", t)
             w == save_json(ef, [data EXCEPT !.events = Append(@, rec)], disk)
         IN IF w.raised # "" THEN Raise(w.file, Pop(c, "events"), w.raised)
            ELSE Return(w.file, Pop(c, "events"), event_id, TRUE)

db_add_event(ef, c, event_data, t, disk) ==
    LET data == load_json(ef) IN
    IF "events" \notin DOMAIN data THEN Raise(ef, c, "KeyError")
    ELSE LET event_id == Str(Len(data.events) + 1)
             rec == Put(Put(event_data, "id", event_id), "created_at", t)
             w == save_json(ef, [data EXCEPT !.events = Append(@, rec)], disk)
         IN IF w.raised # "" THEN Raise(w.file, c, w.raised)
            ELSE Return(w.file, Pop(c, "events"), event_id, TRUE)

db_get_events(ef, c) ==
    IF "events" \in DOMAIN c
    THEN [cache |-> c, ret |-> c["events"], raised |-> ""]
    ELSE LET data == load_json(ef) IN
         IF "events" \notin DOMAIN data
         THEN [cache |-> c, ret |-> "None", raised |-> "KeyError"]
         ELSE [cache |-> Put(c, "events", data.events), ret |-> data.events,
               raised |-> ""]

db_delete_event_stale(ef, c, event_id, disk) ==
    LET data == load_json(ef) IN
    IF "events" \notin DOMAIN data THEN Raise(ef, c, "KeyError")
    ELSE LET kept == SelectSeq(data.events, LAMBDA e : e["id"] # event_id)
         IN IF Len(kept) < Len(data.events)
            THEN LET w == save_json(ef, [data EXCEPT !.events = kept], disk)
                 IN IF w.raised # "" THEN Raise(w.file, c, w.raised)
                    ELSE Return(w.file, c, TRUE, TRUE)
            ELSE Return(ef, c, FALSE, FALSE)

db_delete_event_evict(ef, c, event_id, disk) ==
    LET data == load_json(ef) IN
    IF "events" \notin DOMAIN data THEN Raise(ef, c, "KeyError")
    ELSE LET kept == SelectSeq(data.events, LAMBDA e : e["id"] # event_id)
         IN IF Len(kept) < Len(data.events)
            THEN LET w == save_json(ef, [data EXCEPT !.events = kept], disk)
                 IN IF w.raised # "" THEN Raise(w.file, Pop(c, "events"), w.raised)
                    ELSE Return(w.file, Pop(c, "events"), TRUE, TRUE)
            ELSE Return(ef, Pop(c, "events"), FALSE, FALSE)

db_delete_event(ef, c, event_id, disk) ==
    LET data == load_json(ef) IN
    IF "events" \notin DOMAIN data THEN Raise(ef, c, "KeyError")
    ELSE LET initial_len == Len(data.events)
             kept == SelectSeq(data.events, LAMBDA e : e["id"] # event_id)
         IN IF Len(kept) < initial_len
            THEN LET w == save_json(ef, [data EXCEPT !.events = kept], disk)
                 IN IF w.raised # "" THEN Raise(w.file, c, w.raised)
                    ELSE Return(w.file, Pop(c, "events"), TRUE, TRUE)
            ELSE Return(ef, c, FALSE, FALSE)

db_add_media(mf, c, media_data, disk) ==
    LET data == load_json(mf) IN
    IF "media" \notin DOMAIN data THEN Raise(mf, c, "KeyError")
    ELSE LET w == save_json(mf, [data EXCEPT !.media = Append(@, media_data)], disk)
         IN IF w.raised # "" THEN Raise(w.file, c, w.raised)
            ELSE Return(w.file, Pop(c, "media"), "None", TRUE)

db_search_media(mf, c, query) ==
    IF "media" \notin DOMAIN c /\ "media" \notin DOMAIN load_json(mf)
    THEN [cache |-> c, ret |-> "None", raised |-> "KeyError"]
    ELSE LET c1 == IF "media" \notin DOMAIN c THEN Put(c, "media", load_json(mf).media)
                   ELSE c
             q == Lower(query)
         IN [cache |-> c1,
             ret |-> SelectSeq(c1["media"],
                               LAMBDA media :
                                   \/ Contains(Lower(Get(media, "name", <<>>)), q)
                                   \/ Contains(Lower(Get(media, "description", <<>>)), q)),
             raised |-> ""]

(***************************************************************************)
(* Start-up (database.py:7-16, bot.py:46-64): the data directory is kept   *)
(* between runs, the cache and the FSM storage start empty.                *)
(***************************************************************************)
ADMIN_IDS == {100}

UserIds == {100, 1}

\* message.from_user.username; "" stands for a user without a handle
Username(id) == IF id = 1 THEN "alice" ELSE ""

NoSession == [state |-> "none", data |-> EmptyDict]

DefaultWhitelist == [users |-> <<>>, admins |-> <<>>]

DefaultEvents == [events |-> <<>>]

DefaultMedia == [media |-> <<>>]

NoCall == [op |-> "none", val |-> "", wrote |-> FALSE, raised |-> ""]

InitDb ==
    /\ whitelist_file = DefaultWhitelist
    /\ events_file = DefaultEvents
    /\ media_file = DefaultMedia
    /\ cache = EmptyDict
    /\ storage = [u \in UserIds |-> NoSession]
    /\ tasks = <<>>
    /\ now = 0
    /\ gigachat_client = "none"
    /\ ret = NoCall

(***************************************************************************)
(* The JSONDatabase methods called one after the other (SpecDb).  No       *)
(* method awaits, so a call runs to its end before any other task runs.    *)
(***************************************************************************)
Usernames == {"alice", "100"}

EventInputs ==
    {[title |-> <<"a">>, description |-> <<"b">>, date |-> <<"a">>, creator |-> "alice"],
     [title |-> <<"b">>, description |-> <<"a">>, date |-> <<"b">>, creator |-> "100"]}

EventIdArgs == {"1", "2", "3", "4", "01"}

MediaInputs ==
    {[name |-> <<"City">>, description |-> <<"News">>, added_by |-> "100", added_at |-> 0],
     [name |-> <<"a">>, description |-> <<"b">>, added_by |-> "100", added_at |-> 0]}

Queries == {<<"news">>, <<"a">>, <<"xyz">>}

\* len(data[key]) of a stored collection, 0 when the file does not parse
Size(file, key) == IF key \in DOMAIN load_json(file) THEN Len(file[key]) ELSE 0

Called(op, r, wrote) ==
    ret' = [op |-> op, val |-> r.ret, wrote |-> wrote, raised |-> r.raised]

DbAddToWhitelist(username, disk) ==
    LET r == db_add_to_whitelist(whitelist_file, cache, username, disk) IN
    /\ whitelist_file' = r.file
    /\ cache' = r.cache
    /\ Called("add_to_whitelist", r, r.wrote)
    /\ UNCHANGED <<events_file, media_file, storage, tasks, now, gigachat_client>>

DbIsWhitelisted(username) ==
    LET r == db_is_whitelisted(whitelist_file, cache, username) IN
    /\ cache' = r.cache
    /\ Called("is_whitelisted", r, FALSE)
    /\ UNCHANGED <<files, storage, tasks, now, gigachat_client>>

DbAddEvent(event_data, disk) ==
    LET r == db_add_event(events_file, cache, event_data, now + 1, disk) IN
    /\ Size(events_file, "events") < MaxEvents
    /\ now < MaxNow
    /\ now' = (IF r.raised = "KeyError" THEN now ELSE now + 1)
    /\ events_file' = r.file
    /\ cache' = r.cache
    /\ Called("add_event", r, r.wrote)
    /\ UNCHANGED <<whitelist_file, media_file, storage, tasks, gigachat_client>>

DbGetEvents_repair ==
    LET r == db_get_events(events_file, cache) IN
    /\ cache' = r.cache
    /\ Called("get_events", r, FALSE)
    /\ events_file' = (IF "corrupt" \in DOMAIN events_file THEN DefaultEvents
                       ELSE events_file)
    /\ UNCHANGED <<whitelist_file, media_file, storage, tasks, now, gigachat_client>>

DbGetEvents ==
    LET r == db_get_events(events_file, cache) IN
    /\ cache' = r.cache
    /\ Called("get_events", r, FALSE)
    /\ UNCHANGED <<files, storage, tasks, now, gigachat_client>>

DbDeleteEvent(event_id, disk) ==
    LET r == db_delete_event(events_file, cache, event_id, disk) IN
    /\ events_file' = r.file
    /\ cache' = r.cache
    /\ Called("delete_event", r, r.wrote)
    /\ UNCHANGED <<whitelist_file, media_file, storage, tasks, now, gigachat_client>>

DbAddMedia(media_data, disk) ==
    LET r == db_add_media(media_file, cache, media_data, disk) IN
    /\ Size(media_file, "media") < MaxMedia
    /\ media_file' = r.file
    /\ cache' = r.cache
    /\ Called("add_media", r, r.wrote)
    /\ UNCHANGED <<whitelist_file, events_file, storage, tasks, now, gigachat_client>>

DbSearchMedia(query) ==
    LET r == db_search_media(media_file, cache, query) IN
    /\ cache' = r.cache
    /\ Called("search_media", r, FALSE)
    /\ UNCHANGED <<files, storage, tasks, now, gigachat_client>>

NextWhitelist ==
    \/ \E username \in Usernames : DbAddToWhitelist(username, "ok")
    \/ \E username \in Usernames : DbIsWhitelisted(username)

SpecWhitelist == InitDb /\ [][NextWhitelist]_vars

NextDb ==
    \/ \E event_data \in EventInputs : DbAddEvent(event_data, "ok")
    \/ DbGetEvents
    \/ \E event_id \in EventIdArgs : DbDeleteEvent(event_id, "ok")
    \/ \E media_data \in MediaInputs : DbAddMedia(media_data, "ok")
    \/ \E query \in Queries : DbSearchMedia(query)

SpecDb == InitDb /\ [][NextDb]_vars

(***************************************************************************)
(* The JSONDatabase methods on a data directory that can be damaged and a   *)
(* disk that can refuse a write (SpecFaults).  _init_files creates a file   *)
(* only when none exists, so a file that does not parse survives start-up.  *)
(***************************************************************************)
InitFaults ==
    /\ whitelist_file \in {DefaultWhitelist, Corrupt}
    /\ events_file \in {DefaultEvents, Corrupt}
    /\ media_file \in {DefaultMedia, Corrupt}
    /\ cache = EmptyDict
    /\ storage = [u \in UserIds |-> NoSession]
    /\ tasks = <<>>
    /\ now = 0
    /\ gigachat_client = "none"
    /\ ret = NoCall

MaxFaultEvents == 1     \* records in events.json (SpecFaults)
MaxFaultNow == 2        \* datetime.now() readings (SpecFaults)

FaultUsernames == {"alice"}

FaultMediaInputs ==
    {[name |-> <<"City">>, description |-> <<"News">>, added_by |-> "100", added_at |-> 0]}

FaultQueries == {<<"news">>, <<"xyz">>}

FaultEventIdArgs == {"1", "2"}

NextFaults ==
    \/ \E username \in FaultUsernames, disk \in DiskOutcomes :
           DbAddToWhitelist(username, disk)
    \/ \E username \in FaultUsernames : DbIsWhitelisted(username)
    \/ \E event_data \in EventInputs, disk \in DiskOutcomes :
           /\ Size(events_file, "events") < MaxFaultEvents
           /\ now < MaxFaultNow
           /\ DbAddEvent(event_data, disk)
    \/ DbGetEvents
    \/ \E event_id \in FaultEventIdArgs, disk \in DiskOutcomes :
           DbDeleteEvent(event_id, disk)
    \/ \E media_data \in FaultMediaInputs, disk \in DiskOutcomes :
           DbAddMedia(media_data, disk)
    \/ \E query \in FaultQueries : DbSearchMedia(query)

SpecFaults == InitFaults /\ [][NextFaults]_vars

(***************************************************************************)
(* bot.py: updates, the FSM storage and the handler registry               *)
(***************************************************************************)
Msg(text) == [kind |-> "message", text |-> text]

Photo == [kind |-> "photo", text |-> <<>>]

\* callback.data, cut after its prefix: "style_official" is <<"style_", "official">>
Callback(data) == [kind |-> "callback", text |-> data]

\* message.from_user.username or str(message.from_user.id)
UserKey(id) == IF Username(id) # "" THEN Username(id) ELSE Str(id)

\* args[2].replace("@", ""), over the words of the model
ReplaceAt(w) == CASE w = "@alice" -> "alice" [] w = "@100" -> "100" [] OTHER -> w

\* FSMContext on MemoryStorage
set_state(st, u, s) == [st EXCEPT ![u].state = s]

update_data(st, u, kv) == [st EXCEPT ![u].data = Update(@, kv)]

get_data(st, u) == st[u].data

clear(st, u) == [st EXCEPT ![u] = NoSession]

\* Command(c): the first word of a text message is the command
IsCommand(m, c) == m.kind = "message" /\ Len(m.text) >= 1 /\ m.text[1] = c

\* The message handlers in the order bot.py registers them; the first one
\* whose filter accepts the message handles it.
MessageHandlers ==
    <<"add_to_whitelist", "admin_panel", "process_photo", "start_post_generation",
      "process_topic", "show_events", "start_add_event", "process_event_title",
      "process_event_description", "process_event_date", "delete_event_command",
      "media_search", "process_media_search", "add_media_command",
      "restart_bot_command", "start_command">>

Filter_nostate(h, m, raw_state) ==
    CASE h = "add_to_whitelist" -> IsCommand(m, "/add")
      [] h = "admin_panel" -> IsCommand(m, "/admin")
      [] h = "process_photo" -> m.kind = "photo"
      [] h = "start_post_generation" -> IsCommand(m, "/generate_post")
      [] h = "process_topic" -> raw_state = "PostStates:waiting_for_topic"
      [] h = "show_events" -> IsCommand(m, "/events")
      [] h = "start_add_event" -> IsCommand(m, "/add_event")
      [] h = "process_event_title" -> raw_state = "EventStates:waiting_for_title"
      [] h = "process_event_description" -> raw_state = "EventStates:waiting_for_description"
      [] h = "process_event_date" -> raw_state = "EventStates:waiting_for_date"
      [] h = "delete_event_command" -> IsCommand(m, "/delete_event")
      [] h = "media_search" -> IsCommand(m, "/media")
      [] h = "process_media_search" -> raw_state \in {"MediaStates:waiting_for_search", "none"}
      [] h = "add_media_command" -> IsCommand(m, "/add_media")
      [] h = "restart_bot_command" -> IsCommand(m, "/restart_bot")
      [] h = "start_command" -> IsCommand(m, "/start")

Filter(h, m, raw_state) ==
    CASE h = "add_to_whitelist" -> IsCommand(m, "/add")
      [] h = "admin_panel" -> IsCommand(m, "/admin")
      [] h = "process_photo" -> m.kind = "photo"
      [] h = "start_post_generation" -> IsCommand(m, "/generate_post")
      [] h = "process_topic" -> raw_state = "PostStates:waiting_for_topic"
      [] h = "show_events" -> IsCommand(m, "/events")
      [] h = "start_add_event" -> IsCommand(m, "/add_event")
      [] h = "process_event_title" -> raw_state = "EventStates:waiting_for_title"
      [] h = "process_event_description" -> raw_state = "EventStates:waiting_for_description"
      [] h = "process_event_date" -> raw_state = "EventStates:waiting_for_date"
      [] h = "delete_event_command" -> IsCommand(m, "/delete_event")
      [] h = "media_search" -> IsCommand(m, "/media")
      [] h = "process_media_search" -> raw_state = "MediaStates:waiting_for_search"
      [] h = "add_media_command" -> IsCommand(m, "/add_media")
      [] h = "restart_bot_command" -> IsCommand(m, "/restart_bot")
      [] h = "start_command" -> IsCommand(m, "/start")

Route(m, raw_state) ==
    LET hits == {i \in 1..Len(MessageHandlers) : Filter(MessageHandlers[i], m, raw_state)}
    IN IF hits = {} THEN "unhandled"
       ELSE MessageHandlers[CHOOSE i \in hits : \A j \in hits : i <= j]

\* the callback handlers, in the order bot.py registers them
RouteCallback(m) ==
    CASE m.text[1] = "style_" -> "generate_post_with_style"
      [] m.text[1] = "admin_" -> "handle_admin_actions"
      [] m.text = <<"confirm_restart">> -> "confirm_restart"
      [] m.text = <<"cancel_restart">> -> "cancel_restart"
      [] OTHER -> "unhandled"

\* check_access_middleware: [allow, cache]
check_access_open(u, wf, c) ==
    IF u \in ADMIN_IDS
    THEN [allow |-> TRUE, cache |-> c]
    ELSE [allow |-> TRUE, cache |-> db_is_whitelisted(wf, c, UserKey(u)).cache]

check_access_middleware(u, wf, c) ==
    IF u \in ADMIN_IDS
    THEN [allow |-> TRUE, cache |-> c]
    ELSE LET r == db_is_whitelisted(wf, c, UserKey(u))
         IN [allow |-> r.ret, cache |-> r.cache]

InFlight == {t \in 1..Len(tasks) : tasks[t].pc # "done"}

\* An update arrives (dp.start_polling handles every update in a task of its
\* own): the FSM middleware reads the sender's state, the access middleware
\* admits or denies a message, and the registry picks the handler.
Receive(u, m, max) ==
    /\ Len(tasks) < max
    /\ Cardinality(InFlight) < MaxInFlight
    /\ LET raw_state == storage[u].state
           guard == check_access_middleware(u, whitelist_file, cache)
           handler == IF m.kind = "callback" THEN RouteCallback(m)
                      ELSE IF guard.allow THEN Route(m, raw_state)
                      ELSE "denied"
       IN /\ cache' = (IF m.kind = "callback" THEN cache ELSE guard.cache)
          /\ tasks' = Append(tasks, [user |-> u,
                                     update |-> m,
                                     raw_state |-> raw_state,
                                     handler |-> handler,
                                     pc |-> IF handler = "unhandled" THEN "done" ELSE "s1",
                                     data |-> EmptyDict,
                                     reply |-> ""])
    /\ UNCHANGED <<files, storage, now, gigachat_client, ret>>

At(t, h, pc) == tasks[t].handler = h /\ tasks[t].pc = pc

\* the task goes on to its next await, having sent `reply`
Goto(t, pc, reply) == tasks' = [tasks EXCEPT ![t].pc = pc, ![t].reply = reply]

\* line 81: the denial of the access middleware
denied(t) ==
    /\ At(t, "denied", "s1")
    /\ Goto(t, "done", "no_access")
    /\ UNCHANGED <<files, cache, storage, now, gigachat_client, ret>>

(***************************************************************************)
(* Event creation                                                          *)
(***************************************************************************)
start_add_event(t) ==
    /\ tasks[t].handler = "start_add_event"
    /\ \/ /\ tasks[t].pc = "s1"
          /\ Goto(t, "s2", "ask_title")
          /\ UNCHANGED storage
       \/ /\ tasks[t].pc = "s2"
          /\ storage' = set_state(storage, tasks[t].user, "EventStates:waiting_for_title")
          /\ Goto(t, "done", "ask_title")
    /\ UNCHANGED <<files, cache, now, gigachat_client, ret>>

process_event_title(t) ==
    /\ tasks[t].handler = "process_event_title"
    /\ \/ /\ tasks[t].pc = "s1"
          /\ storage' = update_data(storage, tasks[t].user, [title |-> tasks[t].update.text])
          /\ Goto(t, "s2", "")
       \/ /\ tasks[t].pc = "s2"
          /\ Goto(t, "s3", "ask_description")
          /\ UNCHANGED storage
       \/ /\ tasks[t].pc = "s3"
          /\ storage' = set_state(storage, tasks[t].user, "EventStates:waiting_for_description")
          /\ Goto(t, "done", "ask_description")
    /\ UNCHANGED <<files, cache, now, gigachat_client, ret>>

process_event_description_commit(t) ==
    /\ tasks[t].handler = "process_event_description"
    /\ \/ /\ tasks[t].pc = "s1"
          /\ storage' = update_data(storage, tasks[t].user,
                                    [description |-> tasks[t].update.text])
          /\ Goto(t, "s2", "")
          /\ UNCHANGED <<events_file, cache, now>>
       \/ /\ tasks[t].pc = "s2"
          /\ Goto(t, "s3", "ask_date")
          /\ LET r == db_add_event(events_file, cache, get_data(storage, tasks[t].user),
                                   now + 1, "ok")
             IN /\ events_file' = r.file
                /\ cache' = r.cache
                /\ now' = now + 1
          /\ UNCHANGED storage
       \/ /\ tasks[t].pc = "s3"
          /\ storage' = set_state(storage, tasks[t].user, "EventStates:waiting_for_date")
          /\ Goto(t, "done", "ask_date")
          /\ UNCHANGED <<events_file, cache, now>>
    /\ UNCHANGED <<whitelist_file, media_file, gigachat_client, ret>>

process_event_description(t) ==
    /\ tasks[t].handler = "process_event_description"
    /\ \/ /\ tasks[t].pc = "s1"
          /\ storage' = update_data(storage, tasks[t].user,
                                    [description |-> tasks[t].update.text])
          /\ Goto(t, "s2", "")
       \/ /\ tasks[t].pc = "s2"
          /\ Goto(t, "s3", "ask_date")
          /\ UNCHANGED storage
       \/ /\ tasks[t].pc = "s3"
          /\ storage' = set_state(storage, tasks[t].user, "EventStates:waiting_for_date")
          /\ Goto(t, "done", "ask_date")
    /\ UNCHANGED <<files, cache, now, gigachat_client, ret>>

process_event_date_split(t) ==
    /\ tasks[t].handler = "process_event_date"
    /\ \/ /\ tasks[t].pc = "s1"
          /\ tasks' = [tasks EXCEPT ![t].pc = "s2",
                                    ![t].data = Put(get_data(storage, tasks[t].user),
                                                    "events", events_file.events)]
          /\ UNCHANGED <<events_file, cache, storage, now>>
       \/ /\ tasks[t].pc = "s2"
          /\ LET event_data == Put(Put(Pop(tasks[t].data, "events"),
                                       "date", tasks[t].update.text),
                                   "creator", UserKey(tasks[t].user))
                 r == db_add_event([events |-> tasks[t].data["events"]], cache, event_data,
                                   now + 1, "ok")
             IN /\ events_file' = r.file
                /\ cache' = r.cache
                /\ now' = now + 1
                /\ tasks' = [tasks EXCEPT ![t].pc = "s3",
                                          ![t].data = r.file.events[Len(r.file.events)],
                                          ![t].reply = "event_added_" \o r.ret]
          /\ UNCHANGED storage
       \/ /\ tasks[t].pc = "s3"
          /\ storage' = clear(storage, tasks[t].user)
          /\ tasks' = [tasks EXCEPT ![t].pc = "done"]
          /\ UNCHANGED <<events_file, cache, now>>
    /\ UNCHANGED <<whitelist_file, media_file, gigachat_client, ret>>

process_event_date_noclear(t) ==
    /\ tasks[t].handler = "process_event_date"
    /\ \/ /\ tasks[t].pc = "s1"
          /\ tasks' = [tasks EXCEPT ![t].pc = "s2",
                                    ![t].data = get_data(storage, tasks[t].user)]
          /\ UNCHANGED <<events_file, cache, storage, now>>
       \/ /\ tasks[t].pc = "s2"
          /\ LET event_data == Put(Put(tasks[t].data, "date", tasks[t].update.text),
                                   "creator", UserKey(tasks[t].user))
                 r == db_add_event(events_file, cache, event_data, now + 1, "ok")
             IN /\ events_file' = r.file
                /\ cache' = r.cache
                /\ now' = now + 1
                /\ tasks' = [tasks EXCEPT ![t].pc = "s3",
                                          ![t].data = r.file.events[Len(r.file.events)],
                                          ![t].reply = "event_added_" \o r.ret]
          /\ UNCHANGED storage
       \/ /\ tasks[t].pc = "s3"
          /\ tasks' = [tasks EXCEPT ![t].pc = "done"]
          /\ UNCHANGED <<events_file, cache, storage, now>>
    /\ UNCHANGED <<whitelist_file, media_file, gigachat_client, ret>>

process_event_date(t) ==
    /\ tasks[t].handler = "process_event_date"
    /\ \/ /\ tasks[t].pc = "s1"
          /\ tasks' = [tasks EXCEPT ![t].pc = "s2",
                                    ![t].data = get_data(storage, tasks[t].user)]
          /\ UNCHANGED <<events_file, cache, storage, now>>
       \/ /\ tasks[t].pc = "s2"
          /\ LET event_data == Put(Put(tasks[t].data, "date", tasks[t].update.text),
                                   "creator", UserKey(tasks[t].user))
                 r == db_add_event(events_file, cache, event_data, now + 1, "ok")
             IN /\ events_file' = r.file
                /\ cache' = r.cache
                /\ now' = now + 1
                /\ tasks' = [tasks EXCEPT ![t].pc = "s3",
                                          ![t].data = r.file.events[Len(r.file.events)],
                                          ![t].reply = "event_added_" \o r.ret]
          /\ UNCHANGED storage
       \/ /\ tasks[t].pc = "s3"
          /\ storage' = clear(storage, tasks[t].user)
          /\ tasks' = [tasks EXCEPT ![t].pc = "done"]
          /\ UNCHANGED <<events_file, cache, now>>
    /\ UNCHANGED <<whitelist_file, media_file, gigachat_client, ret>>

(***************************************************************************)
(* Commands without a conversation                                         *)
(***************************************************************************)
add_to_whitelist(t) ==
    /\ At(t, "add_to_whitelist", "s1")
    /\ LET args == tasks[t].update.text IN
       IF tasks[t].user \notin ADMIN_IDS
       THEN /\ Goto(t, "done", "admins_only")
            /\ UNCHANGED <<whitelist_file, cache>>
       ELSE IF Len(args) < 3
       THEN /\ Goto(t, "done", "usage")
            /\ UNCHANGED <<whitelist_file, cache>>
       ELSE LET username == ReplaceAt(args[3])
                r == db_add_to_whitelist(whitelist_file, cache, username, "ok")
            IN /\ whitelist_file' = r.file
               /\ cache' = r.cache
               /\ Goto(t, "done", IF r.ret THEN "whitelist_added" ELSE "whitelist_already")
    /\ UNCHANGED <<events_file, media_file, storage, now, gigachat_client, ret>>

admin_panel(t) ==
    /\ At(t, "admin_panel", "s1")
    /\ Goto(t, "done", IF tasks[t].user \notin ADMIN_IDS THEN "" ELSE "admin_panel")
    /\ UNCHANGED <<files, cache, storage, now, gigachat_client, ret>>

\* the image pipeline touches neither the store nor the FSM storage
process_photo(t) ==
    /\ At(t, "process_photo", "s1")
    /\ Goto(t, "done", "photo")
    /\ UNCHANGED <<files, cache, storage, now, gigachat_client, ret>>

show_events(t) ==
    /\ At(t, "show_events", "s1")
    /\ LET r == db_get_events(events_file, cache)
       IN /\ cache' = r.cache
          /\ Goto(t, "done", IF r.ret = <<>> THEN "no_events" ELSE "events_list")
    /\ UNCHANGED <<files, storage, now, gigachat_client, ret>>

delete_event_command(t) ==
    /\ At(t, "delete_event_command", "s1")
    /\ LET args == tasks[t].update.text IN
       IF Len(args) < 2
       THEN /\ Goto(t, "done", "usage")
            /\ UNCHANGED <<events_file, cache>>
       ELSE LET event_id == args[2]
                r == db_delete_event(events_file, cache, event_id, "ok")
            IN /\ events_file' = r.file
               /\ cache' = r.cache
               /\ Goto(t, "done", IF r.ret THEN "event_deleted" ELSE "event_not_found")
    /\ UNCHANGED <<whitelist_file, media_file, storage, now, gigachat_client, ret>>

add_media_command(t) ==
    /\ At(t, "add_media_command", "s1")
    /\ LET text == tasks[t].update.text IN
       IF tasks[t].user \notin ADMIN_IDS
       THEN /\ Goto(t, "done", "admins_only")
            /\ UNCHANGED <<media_file, cache, now>>
       ELSE IF Len(text) < 3
       THEN /\ Goto(t, "done", "usage")
            /\ UNCHANGED <<media_file, cache, now>>
       ELSE LET media_data == [name |-> <<text[2]>>,
                               description |-> SubSeq(text, 3, Len(text)),
                               added_by |-> UserKey(tasks[t].user),
                               added_at |-> now + 1]
                r == db_add_media(media_file, cache, media_data, "ok")
            IN /\ now' = now + 1
               /\ media_file' = r.file
               /\ cache' = r.cache
               /\ Goto(t, "done", "media_added")
    /\ UNCHANGED <<whitelist_file, events_file, storage, gigachat_client, ret>>

\* the restart goes to the hosting API; no state of the bot is involved
restart_bot_command(t) ==
    /\ At(t, "restart_bot_command", "s1")
    /\ Goto(t, "done", IF tasks[t].user \notin ADMIN_IDS THEN "admins_only" ELSE "restart")
    /\ UNCHANGED <<files, cache, storage, now, gigachat_client, ret>>

start_command(t) ==
    /\ At(t, "start_command", "s1")
    /\ IF tasks[t].user \in ADMIN_IDS
       THEN /\ Goto(t, "done", "welcome_admin")
            /\ UNCHANGED cache
       ELSE LET r == db_is_whitelisted(whitelist_file, cache, UserKey(tasks[t].user))
            IN /\ cache' = r.cache
               /\ Goto(t, "done", IF r.ret THEN "welcome" ELSE "welcome_no_access")
    /\ UNCHANGED <<files, storage, now, gigachat_client, ret>>

(***************************************************************************)
(* Media search                                                            *)
(***************************************************************************)
media_search(t) ==
    /\ tasks[t].handler = "media_search"
    /\ \/ /\ tasks[t].pc = "s1"
          /\ Goto(t, "s2", "ask_query")
          /\ UNCHANGED storage
       \/ /\ tasks[t].pc = "s2"
          /\ storage' = set_state(storage, tasks[t].user, "MediaStates:waiting_for_search")
          /\ Goto(t, "done", "ask_query")
    /\ UNCHANGED <<files, cache, now, gigachat_client, ret>>

process_media_search(t) ==
    /\ tasks[t].handler = "process_media_search"
    /\ \/ /\ tasks[t].pc = "s1"
          /\ LET r == db_search_media(media_file, cache, tasks[t].update.text)
             IN /\ cache' = r.cache
                /\ Goto(t, "s2", IF r.ret = <<>> THEN "nothing_found" ELSE "media_found")
          /\ UNCHANGED storage
       \/ /\ tasks[t].pc = "s2"
          /\ storage' = clear(storage, tasks[t].user)
          /\ tasks' = [tasks EXCEPT ![t].pc = "done"]
          /\ UNCHANGED cache
    /\ UNCHANGED <<files, now, gigachat_client, ret>>

(***************************************************************************)
(* Post generation                                                         *)
(***************************************************************************)
start_post_generation(t) ==
    /\ tasks[t].handler = "start_post_generation"
    /\ \/ /\ tasks[t].pc = "s1"
          /\ IF gigachat_client = "none"
             THEN Goto(t, "done", "generation_unavailable")
             ELSE Goto(t, "s2", "ask_topic")
          /\ UNCHANGED storage
       \/ /\ tasks[t].pc = "s2"
          /\ storage' = set_state(storage, tasks[t].user, "PostStates:waiting_for_topic")
          /\ Goto(t, "done", "ask_topic")
    /\ UNCHANGED <<files, cache, now, gigachat_client, ret>>

process_topic(t) ==
    /\ tasks[t].handler = "process_topic"
    /\ \/ /\ tasks[t].pc = "s1"
          /\ storage' = update_data(storage, tasks[t].user, [topic |-> tasks[t].update.text])
          /\ Goto(t, "s2", "")
       \/ /\ tasks[t].pc = "s2"
          /\ Goto(t, "s3", "ask_style")
          /\ UNCHANGED storage
       \/ /\ tasks[t].pc = "s3"
          /\ storage' = set_state(storage, tasks[t].user, "PostStates:waiting_for_style")
          /\ Goto(t, "done", "ask_style")
    /\ UNCHANGED <<files, cache, now, gigachat_client, ret>>

generate_post_with_style_keep(t) ==
    /\ tasks[t].handler = "generate_post_with_style"
    /\ \/ /\ tasks[t].pc = "s1"
          /\ tasks' = [tasks EXCEPT ![t].pc = "s2",
                                    ![t].data = get_data(storage, tasks[t].user)]
          /\ UNCHANGED storage
       \/ /\ tasks[t].pc = "s2"
          /\ Goto(t, "s3", "generating")
          /\ UNCHANGED storage
       \/ /\ tasks[t].pc = "s3"
          \* gigachat_client.chat(...) returns a text or raises; without a
          \* client the call itself raises
          /\ \E outcome \in (IF gigachat_client = "none" THEN {"generation_error"}
                             ELSE {"post", "generation_error"}) :
                 Goto(t, "s4", outcome)
          /\ UNCHANGED storage
       \/ /\ tasks[t].pc = "s4"
          /\ storage' = (IF tasks[t].reply = "post" THEN clear(storage, tasks[t].user)
                          ELSE storage)
          /\ tasks' = [tasks EXCEPT ![t].pc = "s5"]
       \/ /\ tasks[t].pc = "s5"
          /\ tasks' = [tasks EXCEPT ![t].pc = "done"]
          /\ UNCHANGED storage
    /\ UNCHANGED <<files, cache, now, gigachat_client, ret>>

generate_post_with_style(t) ==
    /\ tasks[t].handler = "generate_post_with_style"
    /\ \/ /\ tasks[t].pc = "s1"
          /\ tasks' = [tasks EXCEPT ![t].pc = "s2",
                                    ![t].data = get_data(storage, tasks[t].user)]
          /\ UNCHANGED storage
       \/ /\ tasks[t].pc = "s2"
          /\ Goto(t, "s3", "generating")
          /\ UNCHANGED storage
       \/ /\ tasks[t].pc = "s3"
          \* gigachat_client.chat(...) returns a text or raises; without a
          \* client the call itself raises
          /\ \E outcome \in (IF gigachat_client = "none" THEN {"generation_error"}
                             ELSE {"post", "generation_error"}) :
                 Goto(t, "s4", outcome)
          /\ UNCHANGED storage
       \/ /\ tasks[t].pc = "s4"
          /\ storage' = clear(storage, tasks[t].user)
          /\ tasks' = [tasks EXCEPT ![t].pc = "s5"]
       \/ /\ tasks[t].pc = "s5"
          /\ tasks' = [tasks EXCEPT ![t].pc = "done"]
          /\ UNCHANGED storage
    /\ UNCHANGED <<files, cache, now, gigachat_client, ret>>

(***************************************************************************)
(* Admin panel buttons                                                     *)
(***************************************************************************)
handle_admin_actions(t) ==
    /\ tasks[t].handler = "handle_admin_actions"
    /\ \/ /\ tasks[t].pc = "s1"
          /\ LET action == tasks[t].update.text[2] IN
             IF action \in {"stats", "events"}
             THEN LET r == db_get_events(events_file, cache)
                  IN /\ cache' = r.cache
                     /\ Goto(t, "s2", IF action = "stats" THEN "stats"
                                      ELSE IF r.ret = <<>> THEN "no_events"
                                      ELSE "last_events")
             ELSE /\ Goto(t, "s2", IF action = "media" THEN "media_help"
                                   ELSE IF action = "restart" THEN "confirm_restart" ELSE "")
                  /\ UNCHANGED cache
       \/ /\ tasks[t].pc = "s2"
          /\ tasks' = [tasks EXCEPT ![t].pc = "done"]
          /\ UNCHANGED cache
    /\ UNCHANGED <<files, storage, now, gigachat_client, ret>>

\* confirm_restart calls restart_bot_command on the bot's own message
confirm_restart(t) ==
    /\ tasks[t].handler = "confirm_restart"
    /\ \/ /\ tasks[t].pc = "s1"
          /\ Goto(t, "s2", "admins_only")
       \/ /\ tasks[t].pc = "s2"
          /\ tasks' = [tasks EXCEPT ![t].pc = "done"]
    /\ UNCHANGED <<files, cache, storage, now, gigachat_client, ret>>

cancel_restart(t) ==
    /\ tasks[t].handler = "cancel_restart"
    /\ \/ /\ tasks[t].pc = "s1"
          /\ Goto(t, "s2", "restart_cancelled")
       \/ /\ tasks[t].pc = "s2"
          /\ tasks' = [tasks EXCEPT ![t].pc = "done"]
    /\ UNCHANGED <<files, cache, storage, now, gigachat_client, ret>>

(***************************************************************************)
(* The bot from a fresh start, event creation only (SpecConv)              *)
(***************************************************************************)
MaxConvUpdates == 4

ConvUpdates ==
    {Msg(<<"/add", "user", "@alice">>), Msg(<<"/add_event">>), Msg(<<"a">>), Msg(<<"b">>)}

NextConv ==
    \/ \E u \in UserIds, m \in ConvUpdates : Receive(u, m, MaxConvUpdates)
    \/ \E t \in 1..Len(tasks) : denied(t)
    \/ \E t \in 1..Len(tasks) : add_to_whitelist(t)
    \/ \E t \in 1..Len(tasks) : start_add_event(t)
    \/ \E t \in 1..Len(tasks) : process_event_title(t)
    \/ \E t \in 1..Len(tasks) : process_event_description(t)
    \/ \E t \in 1..Len(tasks) : process_event_date(t)

SpecConv == InitDb /\ [][NextConv]_vars

(***************************************************************************)
(* Two users at the end of event creation (SpecCommit): both are admitted  *)
(* and have entered a title, or a title and a description.                 *)
(***************************************************************************)
MaxCommitUpdates == 4

CommitUpdates == {Msg(<<"a">>), Msg(<<"b">>), Msg(<<"/events">>)}

CommitSessions ==
    {[state |-> "EventStates:waiting_for_description", data |-> [title |-> <<"a">>]],
     [state |-> "EventStates:waiting_for_date",
      data |-> [title |-> <<"b">>, description |-> <<"a">>]]}

InitCommit ==
    /\ whitelist_file = [users |-> <<"alice">>, admins |-> <<>>]
    /\ events_file = DefaultEvents
    /\ media_file = DefaultMedia
    /\ cache = EmptyDict
    /\ gigachat_client = "none"
    /\ storage \in [UserIds -> CommitSessions]
    /\ tasks = <<>>
    /\ now = 0
    /\ ret = NoCall

NextCommit ==
    \/ \E u \in UserIds, m \in CommitUpdates : Receive(u, m, MaxCommitUpdates)
    \/ \E t \in 1..Len(tasks) : show_events(t)
    \/ \E t \in 1..Len(tasks) : process_event_description(t)
    \/ \E t \in 1..Len(tasks) : process_event_date(t)

SpecCommit == InitCommit /\ [][NextCommit]_vars

(***************************************************************************)
(* The administrator leaves post generation for event creation             *)
(* (SpecSwitch): the session is the one /generate_post, or /generate_post  *)
(* and a topic, leave behind.                                              *)
(***************************************************************************)
MaxSwitchUpdates == 5

SwitchUpdates ==
    {Msg(<<"/add_event">>), Msg(<<"b">>), Callback(<<"style_", "official">>)}

SwitchSessions ==
    {[state |-> "PostStates:waiting_for_topic", data |-> EmptyDict],
     [state |-> "PostStates:waiting_for_style", data |-> [topic |-> <<"a">>]]}

InitSwitch ==
    /\ whitelist_file = DefaultWhitelist
    /\ events_file = DefaultEvents
    /\ media_file = DefaultMedia
    /\ cache = EmptyDict
    /\ gigachat_client = "client"
    /\ storage \in {[u \in UserIds |-> IF u \in ADMIN_IDS THEN s ELSE NoSession] :
                       s \in SwitchSessions}
    /\ tasks = <<>>
    /\ now = 0
    /\ ret = NoCall

NextSwitch ==
    \/ \E u \in ADMIN_IDS, m \in SwitchUpdates : Receive(u, m, MaxSwitchUpdates)
    \/ \E t \in 1..Len(tasks) : process_topic(t)
    \/ \E t \in 1..Len(tasks) : generate_post_with_style(t)
    \/ \E t \in 1..Len(tasks) : start_add_event(t)
    \/ \E t \in 1..Len(tasks) : process_event_title(t)
    \/ \E t \in 1..Len(tasks) : process_event_description(t)
    \/ \E t \in 1..Len(tasks) : process_event_date(t)

SpecSwitch == InitSwitch /\ [][NextSwitch]_vars

(***************************************************************************)
(* The whole bot (Spec).  It starts in a state that earlier, completed     *)
(* updates leave behind: the data directory of an earlier run, and for the *)
(* administrator a session at any step of a workflow.                      *)
(***************************************************************************)
AllUpdates ==
    {Msg(<<"/add", "user", "@alice">>), Msg(<<"/add">>), Msg(<<"/admin">>), Photo,
     Msg(<<"/generate_post">>), Msg(<<"/events">>), Msg(<<"/add_event">>),
     Msg(<<"/delete_event", "1">>), Msg(<<"/delete_event">>), Msg(<<"/media">>),
     Msg(<<"/add_media", "City", "News">>), Msg(<<"/add_media">>),
     Msg(<<"/restart_bot">>), Msg(<<"/start">>), Msg(<<"a">>), Msg(<<"b">>),
     Callback(<<"style_", "official">>), Callback(<<"admin_", "stats">>),
     Callback(<<"admin_", "media">>), Callback(<<"confirm_restart">>),
     Callback(<<"cancel_restart">>)}

StoredEvent ==
    [title |-> <<"a">>, description |-> <<"b">>, date |-> <<"a">>, creator |-> "100",
     id |-> "1", created_at |-> 1]

\* the sessions a workflow leaves between two messages
Sessions(client) ==
    {NoSession,
     [state |-> "EventStates:waiting_for_title", data |-> EmptyDict],
     [state |-> "EventStates:waiting_for_description", data |-> [title |-> <<"a">>]],
     [state |-> "EventStates:waiting_for_date",
      data |-> [title |-> <<"a">>, description |-> <<"b">>]],
     [state |-> "MediaStates:waiting_for_search", data |-> EmptyDict]}
    \cup (IF client = "none" THEN {}
          ELSE {[state |-> "PostStates:waiting_for_topic", data |-> EmptyDict],
                [state |-> "PostStates:waiting_for_style", data |-> [topic |-> <<"a">>]]})

Init ==
    /\ whitelist_file \in {DefaultWhitelist, [users |-> <<"alice">>, admins |-> <<>>]}
    /\ events_file \in {DefaultEvents, [events |-> <<StoredEvent>>]}
    /\ media_file = DefaultMedia
    /\ cache = EmptyDict
    /\ gigachat_client \in {"none", "client"}
    /\ storage \in {[u \in UserIds |-> IF u \in ADMIN_IDS THEN s ELSE NoSession] :
                       s \in Sessions(gigachat_client)}
    /\ tasks = <<>>
    /\ now = Len(events_file.events)
    /\ ret = NoCall

Next ==
    \/ \E u \in UserIds, m \in AllUpdates : Receive(u, m, MaxUpdates)
    \/ \E t \in 1..Len(tasks) : denied(t)
    \/ \E t \in 1..Len(tasks) : add_to_whitelist(t)
    \/ \E t \in 1..Len(tasks) : admin_panel(t)
    \/ \E t \in 1..Len(tasks) : process_photo(t)
    \/ \E t \in 1..Len(tasks) : start_post_generation(t)
    \/ \E t \in 1..Len(tasks) : process_topic(t)
    \/ \E t \in 1..Len(tasks) : generate_post_with_style(t)
    \/ \E t \in 1..Len(tasks) : show_events(t)
    \/ \E t \in 1..Len(tasks) : start_add_event(t)
    \/ \E t \in 1..Len(tasks) : process_event_title(t)
    \/ \E t \in 1..Len(tasks) : process_event_description(t)
    \/ \E t \in 1..Len(tasks) : process_event_date(t)
    \/ \E t \in 1..Len(tasks) : delete_event_command(t)
    \/ \E t \in 1..Len(tasks) : media_search(t)
    \/ \E t \in 1..Len(tasks) : process_media_search(t)
    \/ \E t \in 1..Len(tasks) : add_media_command(t)
    \/ \E t \in 1..Len(tasks) : restart_bot_command(t)
    \/ \E t \in 1..Len(tasks) : start_command(t)
    \/ \E t \in 1..Len(tasks) : handle_admin_actions(t)
    \/ \E t \in 1..Len(tasks) : confirm_restart(t)
    \/ \E t \in 1..Len(tasks) : cancel_restart(t)

Spec == Init /\ [][Next]_vars

(***************************************************************************)
(* Properties of the document store (SpecDb)                               *)
(***************************************************************************)
Ids(events) == {events[k]["id"] : k \in 1..Len(events)}

\* what a get_events() issued now returns
EventsView == db_get_events(events_file, cache).ret

MatchingMedia(media, query) ==
    SelectSeq(media, LAMBDA m : \/ Contains(Lower(Get(m, "name", <<>>)), Lower(query))
                                \/ Contains(Lower(Get(m, "description", <<>>)), Lower(query)))

\* C2: a cache entry 'events' / 'media', when present, equals the durable
\* sequence of its collection, so that get_events and search_media observe
\* every completed write.
C2_CacheCoherence ==
    /\ "events" \in DOMAIN cache => cache["events"] = events_file.events
    /\ "media" \in DOMAIN cache => cache["media"] = media_file.media
    /\ EventsView = events_file.events
    /\ \A query \in Queries :
           db_search_media(media_file, cache, query).ret = MatchingMedia(media_file.media, query)

C2_Witness ==
    /\ "events" \in DOMAIN cache
    /\ "media" \in DOMAIN cache
    /\ Len(events_file.events) = 1
    /\ events_file.events[1]["id"] = "2"
    /\ Len(media_file.media) >= 1

\* C7: no two records of the events collection have the same id.
C7_IdsNeverCollide ==
    \A i, j \in 1..Len(events_file.events) :
        i # j => events_file.events[i]["id"] # events_file.events[j]["id"]

\* C8: add_event(e) followed by get_events() yields the previous sequence
\* with e appended at the end, once, carrying the returned id, which is the
\* decimal string of the previous size plus one.
C8_AppendThenList ==
    [][\A e \in EventInputs :
          ret'.op = "add_event" /\ DbAddEvent(e, "ok") =>
              LET before == EventsView
                  after == db_get_events(events_file', cache').ret
                  last == after[Len(after)]
              IN /\ Len(after) = Len(before) + 1
                 /\ SubSeq(after, 1, Len(before)) = before
                 /\ DOMAIN last = (DOMAIN e) \cup {"id", "created_at"}
                 /\ \A k \in (DOMAIN e) \ {"id", "created_at"} : last[k] = e[k]
                 /\ last["id"] = ret'.val
                 /\ ret'.val = Str(Len(before) + 1)
                 /\ Cardinality({k \in 1..Len(after) : after[k] = last}) = 1]_vars

C8_Witness ==
    /\ ret.op = "add_event"
    /\ ret.val = "2"
    /\ Len(events_file.events) = 2
    /\ events_file.events[1]["id"] = "2"

\* C9: delete_event(i) returns true iff a record with id i was stored; the
\* list read afterwards holds the other records in their order and none with
\* id i, and no step other than an add brings an id back into the list.
C9_Remove ==
    [][/\ \A i \in EventIdArgs :
              ret'.op = "delete_event" /\ DbDeleteEvent(i, "ok") =>
                  LET before == events_file.events
                      after == db_get_events(events_file', cache').ret
                  IN /\ ret'.val = (i \in Ids(before))
                     /\ i \notin Ids(after)
                     /\ after = SelectSeq(before, LAMBDA e : e["id"] # i)
       /\ (~ \E e \in EventInputs : ret'.op = "add_event" /\ DbAddEvent(e, "ok")) =>
              Ids(db_get_events(events_file', cache').ret) \subseteq Ids(EventsView)]_vars

C9_Witness ==
    /\ ret.op = "delete_event"
    /\ ret.val = TRUE
    /\ Len(events_file.events) = 1
    /\ events_file.events[1]["id"] = "2"

\* C10: delete_event(i) for an id that is not stored returns false, writes
\* nothing and leaves the durable sequence and the cache as they were.
C10_DeleteAbsentIsNoOp ==
    [][\A i \in EventIdArgs :
          (/\ ret'.op = "delete_event"
           /\ DbDeleteEvent(i, "ok")
           /\ i \notin Ids(events_file.events)) =>
              /\ ret'.val = FALSE
              /\ ret'.wrote = FALSE
              /\ events_file' = events_file
              /\ cache' = cache]_vars

C10_Witness ==
    /\ ret.op = "delete_event"
    /\ ret.val = FALSE
    /\ "events" \in DOMAIN cache
    /\ Len(events_file.events) = 1
    /\ events_file.events[1]["id"] = "2"

(***************************************************************************)
(* Properties of the document store on a damaged directory (SpecFaults)    *)
(***************************************************************************)
Broken(file) == "corrupt" \in DOMAIN file

\* C11: a call made while the file of its collection is missing or does not
\* parse ends without an error: get_events and search_media return the empty
\* sequence, is_whitelisted returns false, and add_event, add_media,
\* add_to_whitelist and delete_event act as on an empty collection.
C11_MissingFileIsEmpty ==
    [][/\ (/\ Broken(events_file)
           /\ "events" \notin DOMAIN cache
           /\ ret'.op = "get_events"
           /\ DbGetEvents) =>
              ret'.raised = "" /\ ret'.val = <<>>
       /\ \A query \in FaultQueries :
              (/\ Broken(media_file)
               /\ "media" \notin DOMAIN cache
               /\ ret'.op = "search_media"
               /\ DbSearchMedia(query)) =>
                  ret'.raised = "" /\ ret'.val = <<>>
       /\ \A username \in FaultUsernames :
              (/\ Broken(whitelist_file)
               /\ ("whitelist_" \o username) \notin DOMAIN cache
               /\ ret'.op = "is_whitelisted" /\ DbIsWhitelisted(username)) =>
                  ret'.raised = "" /\ ret'.val = FALSE
       /\ \A e \in EventInputs :
              (Broken(events_file) /\ ret'.op = "add_event" /\ DbAddEvent(e, "ok")) =>
                  /\ ret'.raised = ""
                  /\ ret'.val = "1"
                  /\ Size(events_file', "events") = 1
       /\ \A i \in FaultEventIdArgs :
              (Broken(events_file) /\ ret'.op = "delete_event" /\ DbDeleteEvent(i, "ok")) =>
                  ret'.raised = "" /\ ret'.val = FALSE
       /\ \A m \in FaultMediaInputs :
              (Broken(media_file) /\ ret'.op = "add_media" /\ DbAddMedia(m, "ok")) =>
                  ret'.raised = "" /\ Size(media_file', "media") = 1
       /\ \A username \in FaultUsernames :
              (/\ Broken(whitelist_file)
               /\ ret'.op = "add_to_whitelist"
               /\ DbAddToWhitelist(username, "ok")) =>
                  ret'.raised = "" /\ ret'.val = TRUE]_vars

\* C18: when the write inside add_event, delete_event, add_media or
\* add_to_whitelist fails, the call ends in an error, returns neither an id
\* nor true, and leaves the cache as it was.
C18_FailedWriteKeepsCache ==
    [][\A disk \in DiskOutcomes \ {"ok"} :
          /\ \A e \in EventInputs :
                 (~Broken(events_file) /\ ret'.op = "add_event" /\ DbAddEvent(e, disk)) =>
                     /\ ret'.raised = "OSError"
                     /\ ret'.val = "None"
                     /\ ret'.wrote = FALSE
                     /\ cache' = cache
          /\ \A i \in FaultEventIdArgs :
                 (/\ ~Broken(events_file)
                  /\ i \in Ids(events_file.events)
                  /\ ret'.op = "delete_event" /\ DbDeleteEvent(i, disk)) =>
                     /\ ret'.raised = "OSError"
                     /\ ret'.val = "None"
                     /\ ret'.wrote = FALSE
                     /\ cache' = cache
          /\ \A m \in FaultMediaInputs :
                 (~Broken(media_file) /\ ret'.op = "add_media" /\ DbAddMedia(m, disk)) =>
                     /\ ret'.raised = "OSError"
                     /\ ret'.wrote = FALSE
                     /\ cache' = cache
          /\ \A username \in FaultUsernames :
                 (/\ ~Broken(whitelist_file)
                  /\ ~In(username, whitelist_file.users)
                  /\ ret'.op = "add_to_whitelist" /\ DbAddToWhitelist(username, disk)) =>
                     /\ ret'.raised = "OSError"
                     /\ ret'.val = "None"
                     /\ ret'.wrote = FALSE
                     /\ cache' = cache]_vars

C18_Witness ==
    /\ ret.op = "add_event"
    /\ ret.raised = "OSError"
    /\ "events" \in DOMAIN cache
    /\ Broken(events_file)

\* C20: get_events, search_media and is_whitelisted leave every durable
\* collection unchanged; the only thing they change is the cache entry of what
\* they read, which they fill when it was absent.
C20_ReadsNeverMutate ==
    [][/\ (ret'.op = "get_events" /\ DbGetEvents) =>
              /\ files' = files
              /\ \/ cache' = cache
                 \/ /\ "events" \notin DOMAIN cache
                    /\ cache' = Put(cache, "events", events_file.events)
       /\ \A query \in FaultQueries :
              (ret'.op = "search_media" /\ DbSearchMedia(query)) =>
                  /\ files' = files
                  /\ \/ cache' = cache
                     \/ /\ "media" \notin DOMAIN cache
                        /\ cache' = Put(cache, "media", media_file.media)
       /\ \A username \in FaultUsernames :
              (ret'.op = "is_whitelisted" /\ DbIsWhitelisted(username)) =>
                  /\ files' = files
                  /\ \/ cache' = cache
                     \/ /\ ("whitelist_" \o username) \notin DOMAIN cache
                        /\ cache' = Put(cache, "whitelist_" \o username,
                                        In(username, whitelist_file.users))]_vars

C20_Witness ==
    /\ ret.op = "get_events"
    /\ ret.raised = ""
    /\ Len(ret.val) = 1
    /\ DOMAIN cache = {"events", "media", "whitelist_alice"}
    /\ Broken(events_file)

(***************************************************************************)
(* Properties of the bot                                                   *)
(***************************************************************************)
Commands ==
    {"/add", "/admin", "/generate_post", "/events", "/add_event", "/delete_event",
     "/media", "/add_media", "/restart_bot", "/start"}

HandlerOf(command) ==
    CASE command = "/add" -> "add_to_whitelist"
      [] command = "/admin" -> "admin_panel"
      [] command = "/generate_post" -> "start_post_generation"
      [] command = "/events" -> "show_events"
      [] command = "/add_event" -> "start_add_event"
      [] command = "/delete_event" -> "delete_event_command"
      [] command = "/media" -> "media_search"
      [] command = "/add_media" -> "add_media_command"
      [] command = "/restart_bot" -> "restart_bot_command"
      [] command = "/start" -> "start_command"

IsFreeText(m) == m.kind = "message" /\ Len(m.text) >= 1 /\ m.text[1] \notin Commands

\* the tasks of user u, in order of receipt
TasksOf(u) == SelectSeq(tasks, LAMBDA task : task.user = u)

\* the state a conversation step leaves its user in
StateAfter(handler) ==
    CASE handler = "process_topic" -> "PostStates:waiting_for_style"
      [] handler = "process_event_title" -> "EventStates:waiting_for_description"
      [] handler = "process_event_description" -> "EventStates:waiting_for_date"
      [] OTHER -> "none"

StateHandlers ==
    {"process_topic", "process_event_title", "process_event_description",
     "process_event_date", "process_media_search"}

\* C1: once add_to_whitelist(u) has written u to the whitelist, is_whitelisted(u)
\* returns true, whatever was evaluated before the add.
C1_ReadYourWrites ==
    \A username \in Usernames :
        In(username, whitelist_file.users) =>
            db_is_whitelisted(whitelist_file, cache, username).ret

\* C3: of two free-text messages one user sends in a conversation state, the
\* second is matched against the state the first one's transition leaves.
C3_TransitionsSerialized ==
    \A u \in UserIds :
        \A k \in 1..Len(TasksOf(u)) :
            (/\ k > 1
             /\ TasksOf(u)[k - 1].handler \in StateHandlers
             /\ IsFreeText(TasksOf(u)[k - 1].update)
             /\ IsFreeText(TasksOf(u)[k].update)
             /\ TasksOf(u)[k].handler # "denied")
            => TasksOf(u)[k].raw_state = StateAfter(TasksOf(u)[k - 1].handler)

\* C4: a message that carries a command keyword is handled by the handler of
\* that command, in every conversation state of its sender.
C4_CommandsFirst ==
    \A t \in 1..Len(tasks) :
        (/\ tasks[t].update.kind = "message"
         /\ Len(tasks[t].update.text) >= 1
         /\ tasks[t].update.text[1] \in Commands
         /\ tasks[t].handler # "denied")
        => tasks[t].handler = HandlerOf(tasks[t].update.text[1])

NotAdmitted(u) ==
    /\ u \notin ADMIN_IDS
    /\ ~In(UserKey(u), whitelist_file.users)
    /\ ~In(UserKey(u), whitelist_file.admins)

\* C5: a message of a sender who is neither an administrator nor whitelisted
\* is denied: no handler runs for it, and no step taken for it changes a
\* durable collection or a session; its only reply is the denial.
C5_AccessIsolation ==
    [][/\ \A u \in UserIds, m \in AllUpdates :
              (m.kind # "callback" /\ NotAdmitted(u) /\ Receive(u, m, MaxUpdates)) =>
                  /\ tasks'[Len(tasks')].handler = "denied"
                  /\ files' = files
                  /\ storage' = storage
       /\ \A t \in 1..Len(tasks) :
              (tasks[t].handler = "denied" /\ tasks'[t].pc # tasks[t].pc) =>
                  /\ tasks'[t].pc = "done"
                  /\ tasks'[t].reply = "no_access"
                  /\ files' = files
                  /\ storage' = storage]_vars

C5_Witness ==
    \E t \in 1..Len(tasks) :
        /\ tasks[t].user = 1
        /\ tasks[t].update = Msg(<<"/add_event">>)
        /\ tasks[t].handler = "denied"
        /\ tasks[t].pc = "done"
        /\ \E t2 \in 1..Len(tasks) : t2 < t /\ tasks[t2].pc # "done"

\* C6: /add_event followed by the free texts T, D, X of an admitted user
\* (T received in the awaiting-title state) appends exactly one event, with
\* title T, description D, date X and the sender's handle (or numeric id) as
\* creator, an id and a created_at.
C6_EventCreation ==
    \A u \in UserIds :
        LET mine == TasksOf(u)
            made == SelectSeq(events_file.events, LAMBDA e : e["creator"] = UserKey(u))
        IN (/\ Len(mine) = 4
            /\ mine[1].update = Msg(<<"/add_event">>)
            /\ \A k \in 2..4 : IsFreeText(mine[k].update)
            /\ mine[2].raw_state = "EventStates:waiting_for_title"
            /\ \A k \in 1..4 : mine[k].pc = "done" /\ mine[k].handler # "denied")
           => /\ Len(made) = 1
              /\ DOMAIN made[1] =
                     {"title", "description", "date", "creator", "id", "created_at"}
              /\ made[1]["title"] = mine[2].update.text
              /\ made[1]["description"] = mine[3].update.text
              /\ made[1]["date"] = mine[4].update.text

\* C12: a 'style_*' button pressed by a sender whose session is not in the
\* awaiting-style state generates nothing and leaves the sender's state and
\* scratch as they are.
C12_StyleNeedsSession ==
    [][\A t \in 1..Len(tasks) :
          (/\ tasks[t].raw_state # "PostStates:waiting_for_style"
           /\ generate_post_with_style(t))
          => /\ storage'[tasks[t].user] = storage[tasks[t].user]
             /\ tasks'[t].reply \notin {"generating", "post", "generation_error"}]_vars

\* C13: the handler of a workflow's final step (the date message, the search
\* query, the style button) ends by clearing the sender's session: state
\* 'none', empty scratch; in event creation the clear comes after the step in
\* which add_event appended the record.
C13_SessionClearedOnCommit ==
    [][\A t \in 1..Len(tasks) :
          LET u == tasks[t].user
              moved == tasks'[t].pc # tasks[t].pc
          IN /\ (tasks[t].handler = "process_event_date" /\ moved /\ tasks'[t].pc = "s3") =>
                    /\ Len(events_file'.events) = Len(events_file.events) + 1
                    /\ events_file'.events[Len(events_file'.events)] = tasks'[t].data
                    /\ storage' = storage
             /\ (tasks[t].handler = "process_event_date" /\ moved /\ tasks'[t].pc = "done") =>
                    /\ tasks[t].pc = "s3"
                    /\ storage'[u] = NoSession
             /\ (tasks[t].handler = "process_media_search" /\ moved /\ tasks'[t].pc = "done") =>
                    storage'[u] = NoSession
             /\ (tasks[t].handler = "generate_post_with_style" /\ moved) =>
                    /\ tasks'[t].pc = "s5" => storage'[u] = NoSession
                    /\ tasks'[t].pc = "done" => tasks[t].pc = "s5"]_vars

C13_Witness ==
    /\ \E t \in 1..Len(tasks) :
           /\ tasks[t].handler = "process_event_date"
           /\ tasks[t].pc = "done"
           /\ In(tasks[t].data, events_file.events)
           /\ storage[tasks[t].user] = NoSession
    /\ \E t \in 1..Len(tasks) :
           /\ tasks[t].handler \in {"process_media_search", "generate_post_with_style"}
           /\ tasks[t].pc = "done"

\* C14: when the date steps of two different users run concurrently, both
\* records are in the events collection afterwards, each once and with
\* different ids, and get_events returns both.
C14_ConcurrentCommits ==
    \A t1, t2 \in 1..Len(tasks) :
        (/\ tasks[t1].user # tasks[t2].user
         /\ tasks[t1].handler = "process_event_date"
         /\ tasks[t2].handler = "process_event_date"
         /\ tasks[t1].pc \in {"s3", "done"}
         /\ tasks[t2].pc \in {"s3", "done"})
        => /\ \A t \in {t1, t2} :
                  /\ Cardinality({k \in 1..Len(events_file.events) :
                                     events_file.events[k] = tasks[t].data}) = 1
                  /\ In(tasks[t].data, EventsView)
                  /\ tasks[t].data["creator"] = UserKey(tasks[t].user)
                  /\ tasks[t].data["date"] = tasks[t].update.text
           /\ tasks[t1].data["id"] # tasks[t2].data["id"]

C14_Witness ==
    \E t1, t2 \in 1..Len(tasks) :
        /\ tasks[t1].user = 100
        /\ tasks[t2].user = 1
        /\ tasks[t1].handler = "process_event_date"
        /\ tasks[t2].handler = "process_event_date"
        /\ tasks[t1].pc = "s3"
        /\ tasks[t2].pc = "s3"
        /\ Len(events_file.events) = 2

\* C15: a free-text message of an admitted user whose state is 'none' matches
\* no handler: no task runs for it, the session and the durable collections
\* stay as they are.
C15_NoSessionWithoutCommand ==
    [][/\ \A u \in UserIds, m \in AllUpdates :
              (/\ IsFreeText(m)
               /\ storage[u].state = "none"
               /\ check_access_middleware(u, whitelist_file, cache).allow
               /\ Receive(u, m, MaxUpdates))
              => /\ tasks'[Len(tasks')].handler = "unhandled"
                 /\ tasks'[Len(tasks')].pc = "done"
                 /\ storage' = storage
                 /\ files' = files
       /\ \A t \in 1..Len(tasks) :
              tasks[t].handler = "unhandled" => tasks'[t] = tasks[t]]_vars

C15_Witness ==
    \E t \in 1..Len(tasks) :
        /\ tasks[t].user = 1
        /\ tasks[t].update = Msg(<<"a">>)
        /\ tasks[t].handler = "unhandled"
        /\ t = 2
        /\ storage[1] = NoSession

C17_PostEndsOnStyle ==
    [][\A t \in 1..Len(tasks) :
          (/\ tasks[t].handler = "generate_post_with_style"
           /\ tasks[t].raw_state = "PostStates:waiting_for_style"
           /\ tasks'[t].pc # tasks[t].pc)
          => /\ tasks'[t].pc = "s4" =>
                    /\ tasks'[t].reply \in {"post", "generation_error"}
                    /\ gigachat_client = "none" => tasks'[t].reply = "generation_error"
             /\ tasks'[t].pc = "s5" =>
                    /\ tasks[t].pc = "s4"
                    /\ tasks[t].reply \in {"post", "generation_error"}
                    /\ storage'[tasks[t].user] = NoSession
             /\ tasks'[t].pc = "done" => tasks[t].pc = "s5"]_vars

C17_Witness ==
    \E t \in 1..Len(tasks) :
        /\ tasks[t].handler = "generate_post_with_style"
        /\ tasks[t].raw_state = "PostStates:waiting_for_style"
        /\ gigachat_client = "client"
        /\ tasks[t].reply = "generation_error"
        /\ tasks[t].pc = "done"
        /\ storage[tasks[t].user] = NoSession

\* C19: no username occurs twice in the whitelist; add_to_whitelist(u) returns
\* true exactly when u was absent, and false without a write otherwise; the
\* whitelist changes only in the handling of /add sent by an administrator.
C19_WhitelistUnique ==
    [][/\ \A i, j \in 1..Len(whitelist_file'.users) :
              i # j => whitelist_file'.users[i] # whitelist_file'.users[j]
       /\ \A username \in Usernames :
              LET r == db_add_to_whitelist(whitelist_file, cache, username, "ok")
              IN /\ r.ret = ~In(username, whitelist_file.users)
                 /\ r.wrote = r.ret
                 /\ ~r.ret => r.file = whitelist_file
       /\ \A t \in 1..Len(tasks) :
              (add_to_whitelist(t) /\ tasks'[t].reply \in {"whitelist_added", "whitelist_already"})
              => LET username == ReplaceAt(tasks[t].update.text[3])
                 IN IF In(username, whitelist_file.users)
                    THEN /\ tasks'[t].reply = "whitelist_already"
                         /\ whitelist_file' = whitelist_file
                    ELSE /\ tasks'[t].reply = "whitelist_added"
                         /\ whitelist_file'.users = Append(whitelist_file.users, username)
       /\ whitelist_file' # whitelist_file =>
              \E t \in 1..Len(tasks) :
                  /\ tasks[t].handler = "add_to_whitelist"
                  /\ tasks[t].user \in ADMIN_IDS
                  /\ tasks[t].pc = "s1"
                  /\ tasks'[t].pc = "done"]_vars

C19_Witness ==
    /\ whitelist_file.users = <<"alice">>
    /\ \E t1, t2 \in 1..Len(tasks) :
           /\ tasks[t1].reply = "whitelist_added"
           /\ tasks[t2].reply = "whitelist_already"
           /\ tasks[t2].user \in ADMIN_IDS

EventFields == {"title", "description", "date", "creator", "id", "created_at"}

\* C21: a stored event has no field besides title, description, date,
\* creator, id and created_at; what an abandoned workflow collected (the
\* topic of post generation) is in no record.
C21_NoScratchLeak ==
    \A k \in 1..Len(events_file.events) :
        DOMAIN events_file.events[k] \subseteq EventFields

====
